---- MODULE Spec2Model ----
(***************************************************************************)
(* Model of src/app.py: class CircuitDiagramGenerator (parse_input,        *)
(* _calculate_positions, generate_svg, _draw_connections, the icon         *)
(* routines) and the /generate handler generate_circuit.                   *)
(*                                                                         *)
(* A text is a sequence of characters.  An ASCII character is the          *)
(* one-character string itself; a character outside ASCII is a string      *)
(* naming it:                                                              *)
(*   kanji     j_tei 抵  j_kou 抗  j_den 電  j_chi 池  j_gen 源  j_atsu 圧 *)
(*             j_ryuu 流 j_hatsu 発 j_hikari 光 j_setsu 接 j_zoku 続       *)
(*             j_tsuna 繋 j_choku 直 j_retsu 列                            *)
(*   hiragana  h_to と  h_wo を  h_ka か  h_ra ら  h_he へ  h_ni に        *)
(*             h_gu ぐ                                                     *)
(*   katakana  k_re レ k_ji ジ k_su ス k_ta タ k_ko コ k_n ン k_de デ      *)
(*             k_sa サ k_ki キ k_ya ャ k_pa パ k_shi シ k_i イ k_da ダ     *)
(*             k_ku ク k_ru ル k_ba バ k_tsu ッ k_te テ k_ri リ k_bar ー   *)
(*             k_o オ k_do ド k_chi チ k_gu グ k_ra ラ k_a ア              *)
(*   others    arrow → (U+2192)   fw_1 １ (U+FF11, a decimal digit)        *)
(*             long_s ſ (U+017F)  dotless_i ı (U+0131)  I_dot İ (U+0130)   *)
(***************************************************************************)
EXTENDS Integers, Sequences, FiniteSets, TLC

\* Longest text of the exhaustively enumerated inputs.
MaxLen == 2

\* Longest component list of the layout specification.
MaxComponents == 801

\* Characters the enumerated inputs are built from.
Alphabet == {"R", "1", "-", " "}

(***************************************************************************)
(* Character classes of Python's re module on str patterns.                *)
(***************************************************************************)
\* re.IGNORECASE compares characters after simple lower-casing; the
\* characters ſ, ı and İ are case-equivalent to s, i and i.
unicode_tolower(c) ==
    CASE c = "A" -> "a" [] c = "B" -> "b" [] c = "C" -> "c" [] c = "D" -> "d"
      [] c = "E" -> "e" [] c = "F" -> "f" [] c = "G" -> "g" [] c = "H" -> "h"
      [] c = "I" -> "i" [] c = "J" -> "j" [] c = "K" -> "k" [] c = "L" -> "l"
      [] c = "M" -> "m" [] c = "N" -> "n" [] c = "O" -> "o" [] c = "P" -> "p"
      [] c = "Q" -> "q" [] c = "R" -> "r" [] c = "S" -> "s" [] c = "T" -> "t"
      [] c = "U" -> "u" [] c = "V" -> "v" [] c = "W" -> "w" [] c = "X" -> "x"
      [] c = "Y" -> "y" [] c = "Z" -> "z"
      [] c = "long_s" -> "s"
      [] c = "dotless_i" -> "i" [] c = "I_dot" -> "i"
      [] OTHER -> c

\* \d : the decimal digits (Unicode category Nd).
Digits == {"0","1","2","3","4","5","6","7","8","9","fw_1"}

IsDigit(c) == c \in Digits

\* \w : letters of any script, digits and the underscore.
NonWordChars == {" ", "-", "arrow", ".", ","}

IsWord(c) == c \notin NonWordChars

(***************************************************************************)
(* The component vocabulary, parse_input's dict `patterns`, in insertion   *)
(* order.  Every pattern is one group holding an ordered alternation; an   *)
(* alternative is a literal, followed by \d* when digits is TRUE.          *)
(***************************************************************************)
Alt(l, d) == [lit |-> l, digits |-> d]

patterns == <<
    [type |-> "resistor",
     alts |-> << Alt(<<"j_tei","j_kou">>, FALSE),
                 Alt(<<"k_re","k_ji","k_su","k_ta">>, FALSE),
                 Alt(<<"R">>, TRUE) >>],
    [type |-> "capacitor",
     alts |-> << Alt(<<"k_ko","k_n","k_de","k_n","k_sa">>, FALSE),
                 Alt(<<"k_ki","k_ya","k_pa","k_shi","k_ta">>, FALSE),
                 Alt(<<"C">>, TRUE) >>],
    [type |-> "inductor",
     alts |-> << Alt(<<"k_i","k_n","k_da","k_ku","k_ta">>, FALSE),
                 Alt(<<"k_ko","k_i","k_ru">>, FALSE),
                 Alt(<<"L">>, TRUE) >>],
    [type |-> "battery",
     alts |-> << Alt(<<"j_den","j_chi">>, FALSE),
                 Alt(<<"k_ba","k_tsu","k_te","k_ri","k_bar">>, FALSE),
                 Alt(<<"j_den","j_gen">>, FALSE) >>],
    [type |-> "led",
     alts |-> << Alt(<<"L","E","D">>, FALSE),
                 Alt(<<"j_hatsu","j_hikari","k_da","k_i","k_o","k_bar","k_do">>, FALSE) >>],
    [type |-> "switch",
     alts |-> << Alt(<<"k_su","k_i","k_tsu","k_chi">>, FALSE),
                 Alt(<<"S","W">>, FALSE) >>],
    [type |-> "ground",
     alts |-> << Alt(<<"k_gu","k_ra","k_n","k_do">>, FALSE),
                 Alt(<<"G","N","D">>, FALSE),
                 Alt(<<"k_a","k_bar","k_su">>, FALSE) >>],
    [type |-> "voltage_source",
     alts |-> << Alt(<<"j_den","j_atsu","j_gen">>, FALSE),
                 Alt(<<"V">>, TRUE) >>],
    [type |-> "current_source",
     alts |-> << Alt(<<"j_den","j_ryuu","j_gen">>, FALSE),
                 Alt(<<"I">>, TRUE) >>] >>

(***************************************************************************)
(* The five connection phrasings, parse_input's list connection_patterns:  *)
(* (\w+) sep (\w+) tail, matched case-sensitively.                         *)
(***************************************************************************)
connection_patterns == <<
    [sep |-> <<"h_to">>,        tail |-> <<"h_wo","j_setsu","j_zoku">>],
    [sep |-> <<"h_ka","h_ra">>, tail |-> <<"h_he">>],
    [sep |-> <<"arrow">>,       tail |-> <<>>],
    [sep |-> <<"-">>,           tail |-> <<>>],
    [sep |-> <<"h_ni">>,        tail |-> <<"h_wo","j_tsuna","h_gu">>] >>

(***************************************************************************)
(* re.findall(pattern, text, re.IGNORECASE) for a vocabulary pattern.      *)
(***************************************************************************)
RECURSIVE lower(_)
\* The characters of s, lower-cased.
lower(s) ==
    IF s = <<>> THEN <<>> ELSE <<unicode_tolower(Head(s))>> \o lower(Tail(s))

\* The literal lit stands at position p of the text, ignoring case; folded
\* is the lower-cased text.
LiteralAt(lit, folded, p) ==
    /\ p + Len(lit) - 1 <= Len(folded)
    /\ \A k \in 1..Len(lit) : folded[p + k - 1] = unicode_tolower(lit[k])

RECURSIVE DigitRun(_, _)
\* Length of the greedy \d* at position p.
DigitRun(text, p) ==
    IF p <= Len(text) /\ IsDigit(text[p])
      THEN 1 + DigitRun(text, p + 1)
      ELSE 0

\* A pattern X in place of X\d*.
AltLen_nodigits(alt, text, folded, p) ==
    IF LiteralAt(alt.lit, folded, p) THEN Len(alt.lit) ELSE 0

\* Length matched by one alternative at p; 0 when it does not match
\* (no alternative matches the empty string).
AltLen(alt, text, folded, p) ==
    IF LiteralAt(alt.lit, folded, p)
      THEN Len(alt.lit) + (IF alt.digits THEN DigitRun(text, p + Len(alt.lit)) ELSE 0)
      ELSE 0

RECURSIVE GroupLen(_, _, _, _, _)
\* Ordered alternation: the first alternative from index k on that matches.
GroupLen(alts, k, text, folded, p) ==
    IF k > Len(alts) THEN 0
    ELSE LET n == AltLen(alts[k], text, folded, p)
         IN  IF n > 0 THEN n ELSE GroupLen(alts, k + 1, text, folded, p)

RECURSIVE findall_from(_, _, _, _)
findall_from(alts, text, folded, p) ==
    IF p > Len(text) THEN <<>>
    ELSE LET n == GroupLen(alts, 1, text, folded, p)
         IN  IF n > 0
               THEN <<SubSeq(text, p, p + n - 1)>>
                    \o findall_from(alts, text, folded, p + n)
               ELSE findall_from(alts, text, folded, p + 1)

\* The non-overlapping matches, left to right.
findall(alts, text) == findall_from(alts, text, lower(text), 1)

(***************************************************************************)
(* re.findall(pattern, text) for a connection phrasing: a backtracking     *)
(* match of (\w+) sep (\w+) tail, both groups greedy.                      *)
(***************************************************************************)
\* The literal lit stands at position p of text (case-sensitive).
ExactAt(lit, text, p) ==
    /\ p + Len(lit) - 1 <= Len(text)
    /\ \A k \in 1..Len(lit) : text[p + k - 1] = lit[k]

RECURSIVE WordRun(_, _)
\* Length of the longest run of \w characters at position p.
WordRun(text, p) ==
    IF p <= Len(text) /\ IsWord(text[p])
      THEN 1 + WordRun(text, p + 1)
      ELSE 0

\* A phrasing without its closing words.
SecondEnds_anytail(cp, text, g) == g..(g + WordRun(text, g) - 1)

\* Ends e2 of the second group, starting at g, after which tail stands.
SecondEnds(cp, text, g) ==
    {e2 \in g..(g + WordRun(text, g) - 1) : ExactAt(cp.tail, text, e2 + 1)}

\* Ends e1 of the first group, starting at s, from which the rest matches.
FirstEnds(cp, text, s) ==
    {e1 \in s..(s + WordRun(text, s) - 1) :
        /\ ExactAt(cp.sep, text, e1 + 1)
        /\ SecondEnds(cp, text, e1 + Len(cp.sep) + 1) # {}}

Max(S) == CHOOSE m \in S : \A n \in S : n <= m

\* The match starting at s (FirstEnds(cp, text, s) is not empty): greedy
\* groups give the largest end of the first group, then of the second.
ConnMatch(cp, text, s) ==
    LET e1 == Max(FirstEnds(cp, text, s))
        g  == e1 + Len(cp.sep) + 1
        e2 == Max(SecondEnds(cp, text, g))
    IN  [from |-> SubSeq(text, s, e1),
         to   |-> SubSeq(text, g, e2),
         end  |-> e2 + Len(cp.tail)]

RECURSIVE findall_conn_from(_, _, _)
findall_conn_from(cp, text, p) ==
    IF p > Len(text) THEN <<>>
    ELSE IF FirstEnds(cp, text, p) # {}
      THEN LET m == ConnMatch(cp, text, p)
           IN  <<[from |-> m.from, to |-> m.to]>> \o findall_conn_from(cp, text, m.end + 1)
      ELSE findall_conn_from(cp, text, p + 1)

\* The (from, to) pairs of the non-overlapping matches, left to right.
findall_conn(cp, text) == findall_conn_from(cp, text, 1)

(***************************************************************************)
(* The inputs: every text over Alphabet of at most MaxLen characters, and  *)
(* the texts below (vocabulary tokens, the page's example, phrasings).     *)
(***************************************************************************)
random_unrelated_text ==
    <<"r","a","n","d","o","m"," ","u","n","r","e","l","a","t","e","d"," ","t","e","x","t">>

\* 電池と抵抗とLEDを直列に接続
series_example ==
    <<"j_den","j_chi","h_to","j_tei","j_kou","h_to","L","E","D",
      "h_wo","j_choku","j_retsu","h_ni","j_setsu","j_zoku">>

\* One token of every alternative of every kind's pattern, with its kind.
Vocabulary == {
    [kind |-> "resistor", token |-> <<"j_tei","j_kou">>],
    [kind |-> "resistor", token |-> <<"k_re","k_ji","k_su","k_ta">>],
    [kind |-> "resistor", token |-> <<"R","1">>],
    [kind |-> "resistor", token |-> <<"r","1","2">>],
    [kind |-> "capacitor", token |-> <<"k_ko","k_n","k_de","k_n","k_sa">>],
    [kind |-> "capacitor", token |-> <<"k_ki","k_ya","k_pa","k_shi","k_ta">>],
    [kind |-> "capacitor", token |-> <<"C","3">>],
    [kind |-> "inductor", token |-> <<"k_i","k_n","k_da","k_ku","k_ta">>],
    [kind |-> "inductor", token |-> <<"k_ko","k_i","k_ru">>],
    [kind |-> "inductor", token |-> <<"L","2">>],
    [kind |-> "battery", token |-> <<"j_den","j_chi">>],
    [kind |-> "battery", token |-> <<"k_ba","k_tsu","k_te","k_ri","k_bar">>],
    [kind |-> "battery", token |-> <<"j_den","j_gen">>],
    [kind |-> "led", token |-> <<"L","E","D">>],
    [kind |-> "led", token |-> <<"l","e","d">>],
    [kind |-> "led", token |-> <<"j_hatsu","j_hikari","k_da","k_i","k_o","k_bar","k_do">>],
    [kind |-> "switch", token |-> <<"k_su","k_i","k_tsu","k_chi">>],
    [kind |-> "switch", token |-> <<"S","W">>],
    [kind |-> "switch", token |-> <<"long_s","w">>],
    [kind |-> "ground", token |-> <<"k_gu","k_ra","k_n","k_do">>],
    [kind |-> "ground", token |-> <<"G","N","D">>],
    [kind |-> "ground", token |-> <<"k_a","k_bar","k_su">>],
    [kind |-> "voltage_source", token |-> <<"j_den","j_atsu","j_gen">>],
    [kind |-> "voltage_source", token |-> <<"V","1">>],
    [kind |-> "current_source", token |-> <<"j_den","j_ryuu","j_gen">>],
    [kind |-> "current_source", token |-> <<"I","2">>],
    [kind |-> "current_source", token |-> <<"dotless_i","fw_1">>] }

VocabularyTexts == {v.token : v \in Vocabulary}

PhraseTexts == {
    random_unrelated_text,
    series_example,
    \* 電池と抵抗を接続
    <<"j_den","j_chi","h_to","j_tei","j_kou","h_wo","j_setsu","j_zoku">>,
    \* 電池から抵抗へ
    <<"j_den","j_chi","h_ka","h_ra","j_tei","j_kou","h_he">>,
    \* R1→C1
    <<"R","1","arrow","C","1">>,
    \* LEDに抵抗を繋ぐ
    <<"L","E","D","h_ni","j_tei","j_kou","h_wo","j_tsuna","h_gu">>,
    <<"x","-","x">>, <<"R"," ","x">>, <<"R","-","x">>,
    <<"G","N","D"," ","V","1">>, <<"G","N","D"," ","S","W">>,
    <<"R","C","L","V","I">>,
    <<"R","1"," ","R","2"," ","R","3"," ","R","4"," ","R","5"," ","R","6"," ","R","7",
      " ","R","8"," ","R","9">>,
    <<"R","R","R","R","R","R","R","R","R","R">> }

Texts == UNION {[1..n -> Alphabet] : n \in 0..MaxLen} \cup VocabularyTexts \cup PhraseTexts

(***************************************************************************)
(* class CircuitDiagramGenerator.  A generator (self) is the record of its *)
(* two lists; grid_size, svg_width and svg_height are never reassigned.    *)
(***************************************************************************)
svg_height == 600

\* A width read from svg_height.
svg_width_from_height == svg_height

svg_width == 800

\* __init__
CircuitDiagramGenerator == [components |-> <<>>, connections |-> <<>>]

RECURSIVE detect_components_first(_, _)
\* A loop that keeps only the first match of every kind (re.search).
detect_components_first(text, k) ==
    IF k > Len(patterns) THEN <<>>
    ELSE LET matches == findall(patterns[k].alts, text)
         IN  [i \in 1..(IF matches = <<>> THEN 0 ELSE 1) |->
                 [type |-> patterns[k].type, name |-> matches[i], x |-> 0, y |-> 0]]
             \o detect_components_first(text, k + 1)

RECURSIVE detect_components(_, _)
\* The loop `for component_type, pattern in patterns.items()` from the
\* k-th kind on: one component per match, at (0, 0).
detect_components(text, k) ==
    IF k > Len(patterns) THEN <<>>
    ELSE LET matches == findall(patterns[k].alts, text)
         IN  [i \in 1..Len(matches) |->
                 [type |-> patterns[k].type, name |-> matches[i], x |-> 0, y |-> 0]]
             \o detect_components(text, k + 1)

RECURSIVE detect_connections(_, _)
\* The loop `for pattern in connection_patterns` from the k-th phrasing on.
detect_connections(text, k) ==
    IF k > Len(connection_patterns) THEN <<>>
    ELSE findall_conn(connection_patterns[k], text) \o detect_connections(text, k + 1)

\* An empty default circuit.
no_default_components == <<>>

\* The default circuit: 電池, 抵抗, LED.
default_components == <<
    [type |-> "battery",  name |-> <<"j_den","j_chi">>, x |-> 100, y |-> 200],
    [type |-> "resistor", name |-> <<"j_tei","j_kou">>, x |-> 300, y |-> 200],
    [type |-> "led",      name |-> <<"L","E","D">>,     x |-> 500, y |-> 200] >>

\* A spacing of svg_width // len(self.components).
_calculate_positions_tight(components) ==
    IF components = <<>> THEN components
    ELSE LET spacing == svg_width \div Len(components)
         IN  [i \in 1..Len(components) |->
                 [components[i] EXCEPT !.x = spacing * i, !.y = svg_height \div 2]]

_calculate_positions(components) ==
    IF components = <<>> THEN components
    ELSE LET spacing == svg_width \div (Len(components) + 1)
         IN  [i \in 1..Len(components) |->
                 [components[i] EXCEPT !.x = spacing * i, !.y = svg_height \div 2]]

\* A parse_input that keeps the lists of the previous call.
reset_lists_kept(self) == self

\* The two lists at the start of parse_input.
reset_lists(self) == [components |-> <<>>, connections |-> <<>>]

\* A parse_input without the `if not self.components` substitution.
or_default_never(components) == components

or_default(components) ==
    IF components = <<>> THEN default_components ELSE components

parse_input(self, text) ==
    LET start    == reset_lists(self)
        detected == start.components \o detect_components(text, 1)
        conns    == start.connections \o detect_connections(text, 1)
    IN  [components  |-> _calculate_positions(or_default(detected)),
         connections |-> conns]

(***************************************************************************)
(* The drawing primitives.  Attribute values are the strings the code      *)
(* builds with str(); an attribute named a-b is the field a_b.  A label is *)
(* the component's name, a sequence of characters.                         *)
(***************************************************************************)
str(n) == ToString(n)

\* ET.SubElement(svg, 'line', {...})
Line(x1, y1, x2, y2, width) ==
    [tag |-> "line", x1 |-> str(x1), y1 |-> str(y1), x2 |-> str(x2), y2 |-> str(y2),
     stroke |-> "black", stroke_width |-> width]

\* ET.SubElement(svg, 'text', {...}).text = content
Text(x, y, size, fill, content) ==
    [tag |-> "text", x |-> str(x), y |-> str(y), text_anchor |-> "middle",
     font_family |-> "Arial", font_size |-> size, fill |-> fill, text |-> content]

\* A return path drawn from two components on (len(self.components) > 1).
_draw_connections_closing2(self) ==
    LET n == Len(self.components)
        adjacent ==
            [i \in 1..(n - 1) |->
                Line(self.components[i].x + 40, self.components[i].y,
                     self.components[i + 1].x - 40, self.components[i + 1].y, "2")]
        first == self.components[1]
        last  == self.components[n]
        closing ==
            IF n > 1
              THEN << Line(last.x,  last.y + 20,  last.x,  last.y + 80,  "2"),
                      Line(last.x,  last.y + 80,  first.x, first.y + 80, "2"),
                      Line(first.x, first.y + 80, first.x, first.y + 20, "2") >>
              ELSE <<>>
    IN  IF n < 2 THEN <<>> ELSE adjacent \o closing

_draw_connections(self) ==
    LET n == Len(self.components)
        adjacent ==
            [i \in 1..(n - 1) |->
                Line(self.components[i].x + 40, self.components[i].y,
                     self.components[i + 1].x - 40, self.components[i + 1].y, "2")]
        first == self.components[1]
        last  == self.components[n]
        closing ==
            IF n > 2
              THEN << Line(last.x,  last.y + 20,  last.x,  last.y + 80,  "2"),
                      Line(last.x,  last.y + 80,  first.x, first.y + 80, "2"),
                      Line(first.x, first.y + 80, first.x, first.y + 20, "2") >>
              ELSE <<>>
    IN  IF n < 2 THEN <<>> ELSE adjacent \o closing

RECURSIVE zigzag(_, _, _)
\* ' '.join of the points i..6 of the resistor's polyline.
zigzag(x, y, i) ==
    LET px == x - 30 + i * 10
        py == y + (IF i % 2 = 1 THEN 10 ELSE -10)
        pt == str(px) \o "," \o str(py)
    IN  IF i = 6 THEN pt ELSE pt \o " " \o zigzag(x, y, i + 1)

_draw_resistor(x, y, name) ==
    << [tag |-> "polyline", points |-> zigzag(x, y, 0), fill |-> "none",
        stroke |-> "black", stroke_width |-> "2"],
       Line(x - 40, y, x - 30, y, "2"),
       Line(x + 30, y, x + 40, y, "2"),
       Text(x, y - 20, "12", "black", name) >>

_draw_capacitor(x, y, name) ==
    << Line(x - 5, y - 20, x - 5, y + 20, "3"),
       Line(x + 5, y - 20, x + 5, y + 20, "3"),
       Line(x - 40, y, x - 5, y, "2"),
       Line(x + 5, y, x + 40, y, "2"),
       Text(x, y - 30, "12", "black", name) >>

_draw_inductor(x, y, name) ==
    [i \in 1..4 |->
        LET cx == x - 15 + (i - 1) * 10
        IN  [tag |-> "path",
             d |-> "M " \o str(cx) \o " " \o str(y) \o " A 5 5 0 0 1 "
                        \o str(cx + 10) \o " " \o str(y),
             fill |-> "none", stroke |-> "black", stroke_width |-> "2"]]
    \o << Line(x - 40, y, x - 15, y, "2"),
          Line(x + 15, y, x + 40, y, "2"),
          Text(x, y - 20, "12", "black", name) >>

_draw_battery(x, y, name) ==
    << Line(x + 5, y - 20, x + 5, y + 20, "3"),
       Line(x - 5, y - 10, x - 5, y + 10, "3"),
       Line(x - 40, y, x - 5, y, "2"),
       Line(x + 5, y, x + 40, y, "2"),
       Text(x + 15, y + 5, "14", "red", <<"+">>),
       Text(x - 15, y + 5, "14", "blue", <<"-">>),
       Text(x, y - 30, "12", "black", name) >>

_draw_led(x, y, name) ==
    << [tag |-> "polygon",
        points |-> str(x - 15) \o "," \o str(y - 10) \o " " \o str(x - 15) \o ","
                   \o str(y + 10) \o " " \o str(x + 5) \o "," \o str(y),
        fill |-> "none", stroke |-> "black", stroke_width |-> "2"],
       Line(x + 5, y - 10, x + 5, y + 10, "2"),
       Line(x - 40, y, x - 15, y, "2"),
       Line(x + 5, y, x + 40, y, "2"),
       [tag |-> "path",
        d |-> "M " \o str(x + 10) \o " " \o str(y - 15) \o " L " \o str(x + 15) \o " "
              \o str(y - 20) \o " M " \o str(x + 12) \o " " \o str(y - 20) \o " L "
              \o str(x + 15) \o " " \o str(y - 20) \o " L " \o str(x + 15) \o " "
              \o str(y - 17),
        fill |-> "none", stroke |-> "orange", stroke_width |-> "1"],
       Text(x, y - 30, "12", "black", name) >>

_draw_switch(x, y, name) ==
    << [tag |-> "circle", cx |-> str(x - 15), cy |-> str(y), r |-> "2", fill |-> "black"],
       [tag |-> "circle", cx |-> str(x + 15), cy |-> str(y), r |-> "2", fill |-> "black"],
       Line(x - 15, y, x + 10, y - 10, "2"),
       Line(x - 40, y, x - 15, y, "2"),
       Line(x + 15, y, x + 40, y, "2"),
       Text(x, y - 25, "12", "black", name) >>

\* The lengths of the three bars.
ground_bars == <<20, 12, 6>>

_draw_ground(x, y, name) ==
    << Line(x, y, x, y + 20, "2") >>
    \o [i \in 1..3 |->
          Line(x - ground_bars[i] \div 2, y + 20 + (i - 1) * 4,
               x + ground_bars[i] \div 2, y + 20 + (i - 1) * 4, "2")]
    \o << Line(x - 40, y, x, y, "2"),
          Text(x, y - 10, "12", "black", name) >>

_draw_generic(x, y, name) ==
    << [tag |-> "rect", x |-> str(x - 20), y |-> str(y - 15), width |-> "40",
        height |-> "30", fill |-> "lightgray", stroke |-> "black", stroke_width |-> "2"],
       Line(x - 40, y, x - 20, y, "2"),
       Line(x + 20, y, x + 40, y, "2"),
       Text(x, y + 5, "10", "black", name) >>

_draw_component(component) ==
    LET x == component.x
        y == component.y
        comp_type == component.type
    IN  IF comp_type = "resistor" THEN _draw_resistor(x, y, component.name)
        ELSE IF comp_type = "capacitor" THEN _draw_capacitor(x, y, component.name)
        ELSE IF comp_type = "inductor" THEN _draw_inductor(x, y, component.name)
        ELSE IF comp_type = "battery" THEN _draw_battery(x, y, component.name)
        ELSE IF comp_type = "led" THEN _draw_led(x, y, component.name)
        ELSE IF comp_type = "switch" THEN _draw_switch(x, y, component.name)
        ELSE IF comp_type = "ground" THEN _draw_ground(x, y, component.name)
        ELSE _draw_generic(x, y, component.name)

RECURSIVE draw_components(_, _)
\* The loop `for component in self.components` from the i-th component on.
draw_components(components, i) ==
    IF i > Len(components) THEN <<>>
    ELSE _draw_component(components[i]) \o draw_components(components, i + 1)

\* The serialised document, line by line: the XML declaration, the root's
\* start tag, one entry per child at one level of indentation, the end tag.
_prettify_svg(elem) ==
    << [indent |-> 0, declaration |-> "xml"],
       [indent |-> 0, start |-> elem.tag, width |-> elem.width,
        height |-> elem.height, xmlns |-> elem.xmlns] >>
    \o [i \in 1..Len(elem.children) |-> [indent |-> 1, element |-> elem.children[i]]]
    \o << [indent |-> 0, end |-> elem.tag] >>

\* A renderer that wires the components only when connections were found.
generate_svg_routed(self) ==
    LET background == [tag |-> "rect", width |-> str(svg_width),
                       height |-> str(svg_height), fill |-> "white", stroke |-> "none"]
        wires == IF self.connections = <<>> THEN <<>> ELSE _draw_connections(self)
        svg == [tag |-> "svg", width |-> str(svg_width), height |-> str(svg_height),
                xmlns |-> "http://www.w3.org/2000/svg",
                children |-> <<background>> \o wires
                             \o draw_components(self.components, 1)]
    IN  _prettify_svg(svg)

generate_svg(self) ==
    LET background == [tag |-> "rect", width |-> str(svg_width),
                       height |-> str(svg_height), fill |-> "white", stroke |-> "none"]
        svg == [tag |-> "svg", width |-> str(svg_width), height |-> str(svg_height),
                xmlns |-> "http://www.w3.org/2000/svg",
                children |-> <<background>> \o _draw_connections(self)
                             \o draw_components(self.components, 1)]
    IN  _prettify_svg(svg)

(***************************************************************************)
(* The state: one generator (its two lists), the method called last on it, *)
(* the text that parse_input was last given (<<t>> for the text t, <<>>    *)
(* when it has not been called) and the value the last call returned       *)
(* (<<>> stands for None, which parse_input and __init__ return).          *)
(***************************************************************************)
VARIABLES components, connections, call, text, result

vars == <<components, connections, call, text, result>>

self == [components |-> components, connections |-> connections]

Init ==
    /\ components = CircuitDiagramGenerator.components
    /\ connections = CircuitDiagramGenerator.connections
    /\ call = "__init__"
    /\ text = <<>>
    /\ result = <<>>

\* generator.parse_input(t)
ParseInput(t) ==
    /\ LET after == parse_input(self, t)
       IN  /\ components' = after.components
           /\ connections' = after.connections
    /\ call' = "parse_input"
    /\ text' = <<t>>
    /\ result' = <<>>

\* A generate_svg whose drawing loop consumes self.components.
GenerateSvg_consuming ==
    /\ result' = generate_svg(self)
    /\ call' = "generate_svg"
    /\ components' = <<>>
    /\ UNCHANGED <<connections, text>>

\* generator.generate_svg()
GenerateSvg ==
    /\ result' = generate_svg(self)
    /\ call' = "generate_svg"
    /\ UNCHANGED <<components, connections, text>>

\* The /generate handler: a new generator, parse_input, generate_svg.
generate_circuit(description) ==
    LET generator == parse_input(CircuitDiagramGenerator, description)
    IN  [generator |-> generator, svg_content |-> generate_svg(generator)]

GenerateCircuit(description) ==
    /\ LET response == generate_circuit(description)
       IN  /\ components' = response.generator.components
           /\ connections' = response.generator.connections
           /\ result' = response.svg_content
    /\ call' = "generate_circuit"
    /\ text' = <<description>>

Next ==
    \/ \E t \in Texts : ParseInput(t)
    \/ GenerateSvg
    \/ \E description \in Texts : GenerateCircuit(description)

Spec == Init /\ [][Next]_vars

(***************************************************************************)
(* The layout on its own.  The detection loops of parse_input leave a list *)
(* of n components at (0, 0) -- n resistors for a text of n letters R --   *)
(* on which _calculate_positions and then _draw_connections run.  The      *)
(* lists of the main specification stay short, so this specification draws *)
(* the list the loops have left from 1..MaxComponents.                     *)
(***************************************************************************)
\* self.components after the loops of parse_input on 'R' * n
detected(n) ==
    [i \in 1..n |-> [type |-> "resistor", name |-> <<"R">>, x |-> 0, y |-> 0]]

InitLayout ==
    \E n \in 1..MaxComponents :
        /\ components = detected(n)
        /\ connections = <<>>
        /\ text = << [i \in 1..n |-> "R"] >>
        /\ result = <<>>
        /\ call = "parse_input"

\* self._calculate_positions(), the last statement of parse_input
CalculatePositions ==
    /\ call = "parse_input"
    /\ components' = _calculate_positions(components)
    /\ call' = "_calculate_positions"
    /\ UNCHANGED <<connections, text, result>>

\* self._draw_connections(svg), its elements kept in result
DrawConnections ==
    /\ call = "_calculate_positions"
    /\ result' = _draw_connections(self)
    /\ call' = "_draw_connections"
    /\ UNCHANGED <<components, connections, text>>

NextLayout ==
    \/ CalculatePositions
    \/ DrawConnections

SpecLayout == InitLayout /\ [][NextLayout]_vars

(***************************************************************************)
(* Vocabulary of the properties.                                           *)
(***************************************************************************)
\* parse_input has been called on the generator.
Parsed == text # <<>>

\* The text it was last given.
Input == text[1]

\* The last call returned a document.
Rendered == call \in {"generate_svg", "generate_circuit"}

\* The kinds and labels of a component list, in list order.
KindLabels(cs) == [i \in 1..Len(cs) |-> [type |-> cs[i].type, name |-> cs[i].name]]

\* The matches of the k-th kind's pattern in t.
MatchesOf(k, t) == findall(patterns[k].alts, t)

\* None of the nine patterns matches in t.
NoMatch(t) == \A k \in 1..Len(patterns) : MatchesOf(k, t) = <<>>

RECURSIVE NumMatches(_, _)
\* The number of matches of the kinds k..9 in t.
NumMatches(t, k) ==
    IF k > Len(patterns) THEN 0 ELSE Len(MatchesOf(k, t)) + NumMatches(t, k + 1)

\* The index of a kind in the pattern table.
KindIndex(type) == CHOOSE k \in 1..Len(patterns) : patterns[k].type = type

Fallback == << [type |-> "battery",  name |-> <<"j_den","j_chi">>],
               [type |-> "resistor", name |-> <<"j_tei","j_kou">>],
               [type |-> "led",      name |-> <<"L","E","D">>] >>

\* The children of the returned document's root, in document order.
Elements == [i \in 1..(Len(result) - 3) |-> result[i + 2].element]

\* The number of primitives each kind's icon consists of.
IconSize(type) ==
    CASE type = "resistor" -> 4 [] type = "capacitor" -> 5 [] type = "inductor" -> 7
      [] type = "battery" -> 7  [] type = "led" -> 6       [] type = "switch" -> 6
      [] type = "ground" -> 6   [] OTHER -> 4

RECURSIVE IconsSize(_, _)
\* The number of primitives of the icons of the components i..N.
IconsSize(cs, i) ==
    IF i > Len(cs) THEN 0 ELSE IconSize(cs[i].type) + IconsSize(cs, i + 1)

\* The primitives between the background and the first icon.
Wiring == SubSeq(Elements, 2, Len(Elements) - IconsSize(components, 1))

\* The primitives of the i-th component's icon.
Icon(i) ==
    LET stop == Len(Elements) - IconsSize(components, i + 1)
    IN  SubSeq(Elements, stop - IconSize(components[i].type) + 1, stop)

\* The number of icons in the document: every icon ends with its label.
IconCount ==
    Cardinality({i \in 1..Len(Elements) :
        /\ Elements[i].tag = "text"
        /\ Elements[i].font_size \in {"12", "10"}})

\* The end points of a line.
Seg(e) == <<e.x1, e.y1, e.x2, e.y2>>

Coords(x1, y1, x2, y2) == <<str(x1), str(y1), str(x2), str(y2)>>

\* The wiring is n adjacent connecting lines followed by r return segments.
WiringIs(n, r) ==
    LET N == Len(components)
        first == components[1]
        last == components[N]
    IN  /\ Len(Wiring) = n + r
        /\ \A i \in 1..Len(Wiring) : Wiring[i].tag = "line"
        /\ \A i \in 1..n :
              Seg(Wiring[i]) = Coords(components[i].x + 40, components[i].y,
                                      components[i + 1].x - 40, components[i + 1].y)
        /\ r = 3 =>
              /\ Seg(Wiring[n + 1]) = Coords(last.x, last.y + 20, last.x, last.y + 80)
              /\ Seg(Wiring[n + 2]) = Coords(last.x, last.y + 80, first.x, first.y + 80)
              /\ Seg(Wiring[n + 3]) = Coords(first.x, first.y + 80, first.x, first.y + 20)

(***************************************************************************)
(* C1                                                                      *)
(***************************************************************************)
\* The inputs the specification lists as having no vocabulary match.
ListedAsNoMatch == {<<>>, <<" ">>, <<" ", " ">>, random_unrelated_text}

\* C1 as stated: for every input in which no pattern matches, the empty
\* string, a whitespace-only string and 'random unrelated text' among them,
\* parse_input leaves exactly battery 電池, resistor 抵抗, led LED, in this
\* order; for every other input no fallback component is added (every
\* component is a match).
C1_AsStated ==
    Parsed =>
        /\ (NoMatch(Input) \/ Input \in ListedAsNoMatch) =>
              KindLabels(components) = Fallback
        /\ ~NoMatch(Input) => Len(components) = NumMatches(Input, 1)

\* C1 (amended): for every input in which no pattern matches (the empty
\* string and whitespace-only strings among them) parse_input leaves exactly
\* battery 電池, resistor 抵抗, led LED, in this order; for every input in
\* which a pattern matches, the components are exactly the matches and no
\* fallback component is added.  'random unrelated text' is of the second
\* sort: R\d* and L\d* match its letters r, r and l.
C1_Fallback ==
    Parsed =>
        /\ NoMatch(Input) => KindLabels(components) = Fallback
        /\ ~NoMatch(Input) =>
              /\ Len(components) = NumMatches(Input, 1)
              /\ \A i \in 1..Len(components) :
                    \E j \in 1..Len(MatchesOf(KindIndex(components[i].type), Input)) :
                        MatchesOf(KindIndex(components[i].type), Input)[j] = components[i].name
        /\ Input = random_unrelated_text =>
              KindLabels(components) =
                  << [type |-> "resistor", name |-> <<"r">>],
                     [type |-> "resistor", name |-> <<"r">>],
                     [type |-> "inductor", name |-> <<"l">>] >>

C1_Witness ==
    /\ call = "parse_input"
    /\ Parsed
    /\ Input = <<" ", " ">>
    /\ NoMatch(Input)
    /\ KindLabels(components) = Fallback

(***************************************************************************)
(* C2                                                                      *)
(***************************************************************************)
\* The kind whose vocabulary the token t belongs to.
KindOfToken(t) == (CHOOSE v \in Vocabulary : v.token = t).kind

\* C2 as stated: parse_input on a text that is one vocabulary token yields
\* exactly one component, of the token's kind, labelled with the token.
C2_AsStated ==
    (Parsed /\ Input \in VocabularyTexts) =>
        KindLabels(components) =
            << [type |-> KindOfToken(Input), name |-> Input] >>

\* The token LED in any letter case.
IsLED(t) == lower(t) = <<"l", "e", "d">>

\* C2 (amended): parse_input on a text that is one vocabulary token yields
\* exactly one component, of the token's kind, labelled with the token as
\* written, except for the token LED (in any letter case): its first letter
\* also matches the inductor pattern L\d*, and it yields two components,
\* inductor 'L' followed by led 'LED', labelled as written.
C2_SingleToken ==
    (Parsed /\ Input \in VocabularyTexts) =>
        IF IsLED(Input)
          THEN KindLabels(components) =
                   << [type |-> "inductor", name |-> <<Input[1]>>],
                      [type |-> "led", name |-> Input] >>
          ELSE KindLabels(components) =
                   << [type |-> KindOfToken(Input), name |-> Input] >>

C2_Witness ==
    /\ call = "parse_input"
    /\ Parsed
    /\ Input = <<"R", "1">>
    /\ KindLabels(components) = << [type |-> "resistor", name |-> <<"R", "1">>] >>

(***************************************************************************)
(* C3                                                                      *)
(***************************************************************************)
\* C3 as stated: for 電池と抵抗とLEDを直列に接続 parse_input yields exactly the
\* three components battery, resistor, led and exactly one connection, and
\* generate_svg emits three icons, two adjacent connecting lines and a
\* three-segment return path.
C3_AsStated ==
    (Parsed /\ Input = series_example) =>
        /\ Len(components) = 3
        /\ {components[i].type : i \in 1..Len(components)} = {"battery", "resistor", "led"}
        /\ Len(connections) = 1
        /\ Rendered => (IconCount = 3 /\ WiringIs(2, 3))

\* C3 (amended): for 電池と抵抗とLEDを直列に接続 parse_input yields exactly four
\* components, in the order resistor 抵抗, inductor L, battery 電池, led LED,
\* and no connection (を接続 does not occur in the text), and generate_svg
\* emits four icons, three adjacent connecting lines and a three-segment
\* return path.
C3_SeriesExample ==
    (Parsed /\ Input = series_example) =>
        /\ KindLabels(components) =
              << [type |-> "resistor", name |-> <<"j_tei","j_kou">>],
                 [type |-> "inductor", name |-> <<"L">>],
                 [type |-> "battery",  name |-> <<"j_den","j_chi">>],
                 [type |-> "led",      name |-> <<"L","E","D">>] >>
        /\ connections = <<>>
        /\ Rendered => (IconCount = 4 /\ WiringIs(3, 3))

C3_Witness ==
    /\ call = "generate_svg"
    /\ Parsed
    /\ Input = series_example
    /\ Len(components) = 4
    /\ IconCount = 4

(***************************************************************************)
(* C4                                                                      *)
(***************************************************************************)
\* C4: after parse_input the component at 0-based index i of N >= 1
\* components has x = floor(800 / (N + 1)) * (i + 1) and y = 300, and the
\* list is in the order of detection (of the default circuit when nothing
\* was detected), whose coordinates (100,200), (300,200), (500,200) are
\* overwritten.
C4_Layout ==
    Parsed =>
        LET N == Len(components)
        IN  /\ N >= 1
            /\ \A i \in 0..(N - 1) :
                  /\ components[i + 1].x = (800 \div (N + 1)) * (i + 1)
                  /\ components[i + 1].y = 300
            /\ KindLabels(components) =
                  IF NoMatch(Input) THEN Fallback
                                   ELSE KindLabels(detect_components(Input, 1))
            /\ NoMatch(Input) =>
                  <<components[1].x, components[2].x, components[3].x>> = <<200, 400, 600>>

C4_Witness ==
    /\ call = "parse_input"
    /\ Parsed
    /\ Input = <<"x", "-", "x">>
    /\ NoMatch(Input)
    /\ components[3] = [type |-> "led", name |-> <<"L","E","D">>, x |-> 600, y |-> 300]

(***************************************************************************)
(* C5                                                                      *)
(***************************************************************************)
\* C5: the wiring of N components is empty when N < 2, one adjacent
\* connecting line and no return segment when N = 2, and N - 1 adjacent
\* connecting lines followed by the three return segments (last.x, y+20) -
\* (last.x, y+80) - (first.x, y+80) - (first.x, y+20) when N >= 3.
C5_Wiring ==
    Rendered =>
        LET N == Len(components)
        IN  /\ N < 2 => Wiring = <<>>
            /\ N = 2 => WiringIs(1, 0)
            /\ N >= 3 => WiringIs(N - 1, 3)

C5_Witness ==
    /\ call = "generate_svg"
    /\ Len(components) = 5
    /\ Len(Wiring) = 7
    /\ Seg(Wiring[6]) = <<"665", "380", "133", "380">>

(***************************************************************************)
(* C6                                                                      *)
(***************************************************************************)
\* The icon has a horizontal line on the centerline y with an end at px.
HasLeadEnd(icon, px, py) ==
    \E j \in 1..Len(icon) :
        /\ icon[j].tag = "line"
        /\ icon[j].y1 = str(py) /\ icon[j].y2 = str(py)
        /\ icon[j].x1 # icon[j].x2
        /\ str(px) \in {icon[j].x1, icon[j].x2}

\* C6: the icon of every component, whatever its kind, has two horizontal
\* lead lines, one ending at (x-40, y) and one ending at (x+40, y), so both
\* ends of every adjacent connecting line, (left.x+40, y) and (right.x-40, y),
\* are ends of lead lines of the icons they attach to.
C6_LeadLines ==
    Rendered =>
        /\ \A i \in 1..Len(components) :
              /\ HasLeadEnd(Icon(i), components[i].x - 40, components[i].y)
              /\ HasLeadEnd(Icon(i), components[i].x + 40, components[i].y)
        /\ \A i \in 1..(Len(components) - 1) :
              /\ Wiring[i].x1 = str(components[i].x + 40)
              /\ HasLeadEnd(Icon(i), components[i].x + 40, components[i].y)
              /\ Wiring[i].x2 = str(components[i + 1].x - 40)
              /\ HasLeadEnd(Icon(i + 1), components[i + 1].x - 40, components[i + 1].y)

(***************************************************************************)
(* C7                                                                      *)
(***************************************************************************)
\* C7: once parse_input has been called, whatever the texts, the component
\* list is not empty, and every document generate_svg returns from then on
\* holds at least one icon (one per component).
C7_NonEmpty ==
    Parsed =>
        /\ Len(components) >= 1
        /\ Rendered => (IconCount >= 1 /\ IconCount = Len(components))

C7_Witness ==
    /\ call = "generate_svg"
    /\ Parsed
    /\ Input = <<>>
    /\ IconCount = 3

(***************************************************************************)
(* C8                                                                      *)
(***************************************************************************)
RECURSIVE PhrasingMatches(_, _)
\* The matches of the phrasings k..5 in t, phrasing by phrasing.
PhrasingMatches(t, k) ==
    IF k > Len(connection_patterns) THEN <<>>
    ELSE findall_conn(connection_patterns[k], t) \o PhrasingMatches(t, k + 1)

\* Connection lists a generator can hold: none, and those of the phrases.
ConnectionLists == {<<>>} \cup {PhrasingMatches(t, 1) : t \in PhraseTexts}

\* The labels of the components.
Labels == {components[i].name : i \in 1..Len(components)}

\* C8: the document generate_svg returns is the one it returns for the same
\* component list with any other connection list, the empty one included;
\* and parse_input records every phrasing match as a connection, also when
\* neither token is the label of a component.
C8_ConnectionsAdvisory ==
    /\ Rendered =>
          \A c \in ConnectionLists :
              generate_svg([components |-> components, connections |-> c]) = result
    /\ Parsed =>
          /\ connections = PhrasingMatches(Input, 1)
          /\ Input = <<"x", "-", "x">> =>
                /\ connections = << [from |-> <<"x">>, to |-> <<"x">>] >>
                /\ <<"x">> \notin Labels

C8_Witness ==
    /\ call = "generate_svg"
    /\ Parsed
    /\ Input = <<"R", "-", "x">>
    /\ connections = << [from |-> <<"R">>, to |-> <<"x">>] >>
    /\ <<"x">> \notin Labels
    /\ result = generate_svg([components |-> components, connections |-> <<>>])

(***************************************************************************)
(* C9                                                                      *)
(***************************************************************************)
\* C9: a call of generate_svg leaves the component list and the connection
\* list as they were, and returns what the preceding call returned when
\* that call was a generate_svg too (on its own or in the handler).
C9_RenderRepeatable ==
    [][call' = "generate_svg" =>
          /\ components' = components
          /\ connections' = connections
          /\ Rendered => result' = result]_vars

C9_Witness ==
    /\ call = "generate_svg"
    /\ Parsed
    /\ Len(components) = 3
    /\ connections = << [from |-> <<"L","E","D">>, to |-> <<"j_tei","j_kou">>] >>
    /\ result = generate_svg(self)

(***************************************************************************)
(* C10                                                                     *)
(***************************************************************************)
\* C10: after any sequence of calls the two lists are those of a newly
\* constructed generator given only the last text, and a document returned
\* since is the one the handler returns for that text with its own new
\* generator: nothing of earlier texts is kept.
C10_NothingCarriedOver ==
    Parsed =>
        LET fresh == generate_circuit(Input)
        IN  /\ components = fresh.generator.components
            /\ connections = fresh.generator.connections
            /\ Rendered => result = fresh.svg_content

C10_Witness ==
    /\ call = "generate_svg"
    /\ Parsed
    /\ Input = <<"R", "1", "arrow", "C", "1">>
    /\ KindLabels(components) = << [type |-> "resistor", name |-> <<"R", "1">>],
                                   [type |-> "capacitor", name |-> <<"C", "1">>] >>
    /\ connections = << [from |-> <<"R", "1">>, to |-> <<"C", "1">>] >>
    /\ result = generate_circuit(Input).svg_content

(***************************************************************************)
(* C11                                                                     *)
(***************************************************************************)
\* The kinds in the order the claim fixes.
KindOrder == << "resistor", "capacitor", "inductor", "battery", "led", "switch",
                "ground", "voltage_source", "current_source" >>

RECURSIVE MatchList(_, _)
\* The matches in t of the kinds k..9 of KindOrder, kind by kind, each
\* kind's matches from left to right.
MatchList(t, k) ==
    IF k > Len(KindOrder) THEN <<>>
    ELSE LET m == MatchesOf(KindIndex(KindOrder[k]), t)
         IN  [i \in 1..Len(m) |-> [type |-> KindOrder[k], name |-> m[i]]]
             \o MatchList(t, k + 1)

\* C11 as stated: the component list parse_input produces is the
\* concatenation, over the kinds in the fixed order, of each kind's matches
\* from left to right, and its length is the sum of the match counts.
C11_AsStated ==
    Parsed =>
        /\ KindLabels(components) = MatchList(Input, 1)
        /\ Len(components) = NumMatches(Input, 1)

\* C11 (amended): when at least one pattern matches, the component list
\* parse_input produces is the concatenation, over the kinds in the fixed
\* order, of each kind's case-insensitive non-overlapping matches from left
\* to right; its length is the sum of the match counts, with no
\* deduplication across kinds (LED gives an inductor and a led) nor within
\* a kind (ten R give ten resistors).  When no pattern matches, the sum is 0
\* and the list is the three default components.
C11_Concatenation ==
    Parsed =>
        /\ ~NoMatch(Input) =>
              /\ KindLabels(components) = MatchList(Input, 1)
              /\ Len(components) = NumMatches(Input, 1)
        /\ NoMatch(Input) =>
              /\ NumMatches(Input, 1) = 0
              /\ KindLabels(components) = Fallback
        /\ Input = <<"L", "E", "D">> =>
              KindLabels(components) = << [type |-> "inductor", name |-> <<"L">>],
                                          [type |-> "led", name |-> <<"L", "E", "D">>] >>
        /\ Input = <<"R","R","R","R","R","R","R","R","R","R">> =>
              KindLabels(components) =
                  [i \in 1..10 |-> [type |-> "resistor", name |-> <<"R">>]]
        /\ Input = <<"R", "1", "arrow", "C", "1">> =>
              KindLabels(components) = << [type |-> "resistor", name |-> <<"R", "1">>],
                                          [type |-> "capacitor", name |-> <<"C", "1">>] >>

C11_Witness ==
    /\ call = "parse_input"
    /\ Parsed
    /\ Input = <<"R","R","R","R","R","R","R","R","R","R">>
    /\ Len(components) = 10
    /\ components[10].name = <<"R">>

(***************************************************************************)
(* C12                                                                     *)
(***************************************************************************)
\* The adjacent connecting line i starts at or left of its end.
Forward(i) == components[i].x + 40 <= components[i + 1].x - 40

\* C12: for N components every adjacent connecting line runs from
\* left.x + 40 to right.x - 40 with start <= end exactly when
\* 800 \div (N + 1) >= 80, that is for 2 <= N <= 9; for N >= 10 every
\* adjacent line starts strictly right of its end; for N >= 800 every x is
\* 0; always 0 <= x < 800 and x never decreases along the list.
C12_LineDirection ==
    LET N == Len(components)
    IN  /\ call \in {"_calculate_positions", "_draw_connections"} =>
              /\ (800 \div (N + 1) >= 80) <=> N <= 9
              /\ N >= 2 => ((\A i \in 1..(N - 1) : Forward(i)) <=> N <= 9)
              /\ N >= 10 => \A i \in 1..(N - 1) : ~Forward(i)
              /\ N >= 800 => \A i \in 1..N : components[i].x = 0
              /\ \A i \in 1..N : 0 <= components[i].x /\ components[i].x < 800
              /\ \A i \in 1..(N - 1) : components[i].x <= components[i + 1].x
        /\ call = "_draw_connections" =>
              /\ Len(result) >= N - 1
              /\ \A i \in 1..(N - 1) :
                    /\ result[i].tag = "line"
                    /\ Seg(result[i]) = Coords(components[i].x + 40, components[i].y,
                                               components[i + 1].x - 40, components[i + 1].y)

C12_Witness ==
    /\ call = "_draw_connections"
    /\ Len(components) = 800
    /\ components[800].x = 0
    /\ Seg(result[799]) = <<"40", "300", "-40", "300">>

====
